---- MODULE Spec2Model ----
(***************************************************************************)
(* ClubMatch: proximity match formation (Matching view, ActiveUsers view)  *)
(* and AI reply orchestration (Chat view) over the shared store            *)
(* (user_venues, users, matches, messages).                                *)
(*                                                                         *)
(* One action is one run-to-next-await segment of a handler: JavaScript    *)
(* is single threaded, so the code between two awaits is atomic, and the   *)
(* store call that the await waits for takes effect in the same step.      *)
(* Sessions of different users interleave at every await.                  *)
(***************************************************************************)
EXTENDS Integers, Sequences, FiniteSets, TLC

\* ---------------------------------------------------------------- bounds
MaxAttempts == 2       \* match attempts of one session tracked in flight
MaxForceRuns == 2      \* forceMatchAfterWait runs counted per session
MaxHuman == 2          \* human messages sent in the chat session
MaxJoins == 2          \* handleJoinVenue calls of the VenueSelection user
MaxHistory == 12       \* messages of the match when the chat is opened
TickStride == 25       \* wait-timer callbacks before the deadline taken in one step

\* ------------------------------------------------------ program constants
WaitMinTicks == 50     \* 5 s in 0.1 s wait-timer ticks
WaitSpanTicks == 30    \* Math.random() * 3 s, in ticks

ContextSize == 10      \* chatMessages.slice(-10)
NoId == 0             \* null user / match id
NoCoord == -1         \* null latitude / longitude
NoDistance == -1      \* calculateDistance's null

\* user ids, ordered as the ids are
Users == {1, 2, 3}
\* users with an open Matching view
Sessions == {1, 2}
\* the user browsing the ActiveUsers view
Tappers == {3}
AttemptSlots == 1..MaxAttempts

VARIABLES
    \* ---- store
    user_venues,     \* table user_venues: sequence of presence rows
    users,           \* table users: profile of every user id
    matches,         \* table matches: sequence of rows, row index = id
    \* ---- Matching view, per session
    profile,         \* useAuth().profile: the profile the session loaded
    mounted,         \* the view is on screen, its intervals are running
    elapsed,         \* wait-timer ticks counted, saturating at waitTicks
    waitTicks,       \* the drawn deadline, in ticks
    matching,        \* useState matching
    matchFound,      \* useState matchFound: NoId or the match id
    matchingRef,     \* useRef matchingRef  (MatchAttemptGuard)
    matchFoundRef,   \* useRef matchFoundRef
    rendered,        \* [mf, m]: the state values of the last commit
    effectPending,   \* the ref sync effect of the last commit has not run
    poll,            \* loadPoolAndMatch in flight: pc and locals
    attempts,        \* tryAutoMatch / forceMatchAfterWait in flight, by slot
    navTimer,        \* pending setTimeout(navigate to /match-result/id)
    forceRuns,       \* times forceMatchAfterWait passed its guard check
    \* ---- ActiveUsers view, per tapper
    activeUsers,     \* useState activeUsers: ids shown for tapping
    tap,             \* handleMatch in flight
    \* ---- VenueSelection view
    venueSel,        \* the view's state and its handleJoinVenue in flight
    \* ---- Chat view
    messages,        \* table messages of the match, in created_at order
    userId,          \* user.id of the chat session
    match,           \* useState match: NoMatch or the loaded matches row
    matchPc,         \* loadMatch in flight
    sending,         \* useState sending
    generatingAI,    \* useState generatingAI
    aiReplyRef,      \* useRef aiReplyRef  (ReplyGuard)
    sendPc,          \* sendMessage in flight: pc and the match it closed over
    replyTimers,     \* pending setTimeout reply checks, each with its match
    gens,            \* generateAIReply in flight, by slot
    lastGen          \* how the last finished generateAIReply ended

storeVars == <<user_venues, users, matches>>
matchVars == <<profile, mounted, elapsed, waitTicks, matching, matchFound, matchingRef,
               matchFoundRef, rendered, effectPending, poll, attempts,
               navTimer, forceRuns>>
tapVars == <<activeUsers, tap, venueSel>>
chatVars == <<messages, userId, match, matchPc, sending, generatingAI, aiReplyRef,
              sendPc, replyTimers, gens, lastGen>>
vars == <<storeVars, matchVars, tapVars, chatVars>>

\* ================================================================ helpers
\* JavaScript truthiness of a coordinate: null and 0 are both falsy
Falsy(x) == x = NoCoord \/ x = 0

\* !otherUser.gender || !otherUser.seeking_gender
HasGenderFields(p) == p.gender # "null" /\ p.seeking_gender # "null"

\* a null profile, or one without its gender fields
NoProfile == [gender |-> "null", seeking_gender |-> "null"]

\* { data: null } of a .single() read
NoRow == [user_id |-> NoId, venue_id |-> NoId, latitude |-> NoCoord,
          longitude |-> NoCoord]

\* ----------------------------------------------------------- store: reads
\* .from('user_venues').eq('user_id', u).single(): the row, or NoRow when
\* the call fails or there is not exactly one row
OwnVenueRow(u, ok) ==
    LET rows == SelectSeq(user_venues, LAMBDA r : r.user_id = u)
    IN IF ok /\ Len(rows) = 1 THEN rows[1] ELSE NoRow

\* .from('user_venues').eq('venue_id', v).neq('user_id', u), in row order
VenueRows(v, u) ==
    SelectSeq(user_venues, LAMBDA r : r.venue_id = v /\ r.user_id # u)

\* .from('matches').or(user1_id.eq.u, user2_id.eq.u)  ->  matchedUserIds
MatchedUserIds(u) ==
    {IF matches[i].user1_id = u THEN matches[i].user2_id
                                ELSE matches[i].user1_id :
        i \in {j \in DOMAIN matches :
                 matches[j].user1_id = u \/ matches[j].user2_id = u}}

\* ---------------------------------------------------------- store: writes
\* The matches table accepts at most one row per (user1_id, user2_id): the
\* conditional insert keyed on the pair.
PairExists(u1, u2) ==
    \E i \in DOMAIN matches :
        matches[i].user1_id = u1 /\ matches[i].user2_id = u2

InsertAccepted(u1, u2, ok) == ok /\ ~PairExists(u1, u2)

MatchRow(u1, u2, ice) == [user1_id |-> u1, user2_id |-> u2, icebreaker |-> ice]

\* -------------------------------------------------------- canonical pair
CanonicalPairUnordered(me, target) == <<me, target>>

CanonicalPairSwapped(me, target) ==
    IF me > target THEN <<me, target>> ELSE <<target, me>>

\* user.id < targetUserId ? [user.id, targetUserId] : [targetUserId, user.id]
CanonicalPair(me, target) ==
    IF me < target THEN <<me, target>> ELSE <<target, me>>

\* ------------------------------------------------------------- distance
\* calculateDistance: null when any argument is falsy; otherwise the
\* great-circle distance, which on the small grid used here is ordered as
\* the squared coordinate difference is.
calculateDistance(lat1, lon1, lat2, lon2) ==
    IF Falsy(lat1) \/ Falsy(lon1) \/ Falsy(lat2) \/ Falsy(lon2) THEN NoDistance
    ELSE (lat2 - lat1) * (lat2 - lat1) + (lon2 - lon1) * (lon2 - lon1)

\* availableUsers.map(uv => ({ ...uv, distance }))
WithDistance(rows, lat, lon) ==
    [i \in DOMAIN rows |->
        [user_id |-> rows[i].user_id,
         distance |-> calculateDistance(lat, lon, rows[i].latitude,
                                        rows[i].longitude)]]

compareDistanceNoNulls(a, b) == a.distance - b.distance

\* the comparator handed to .sort
compareDistance(a, b) ==
    IF a.distance = NoDistance THEN 1
    ELSE IF b.distance = NoDistance THEN -1
    ELSE a.distance - b.distance

\* Array.prototype.sort is stable: x may come before y when the comparator
\* orders it first, or calls them equal and x came first; where the
\* comparator contradicts itself (two null distances: each is "after" the
\* other) the order is left to the engine.
MayPrecede(x, y, ix, iy) ==
    \/ compareDistance(x, y) < 0
    \/ compareDistance(x, y) = 0 /\ ix < iy
    \/ compareDistance(x, y) > 0 /\ compareDistance(y, x) > 0

\* usersWithDistance: the outcomes of .map(...).sort(...)
usersWithDistance(rows, lat, lon) ==
    LET list == WithDistance(rows, lat, lon)
        n == Len(list)
        perms == {f \in [1..n -> 1..n] : \A i, j \in 1..n : f[i] = f[j] => i = j}
    IN {[i \in 1..n |-> list[f[i]]] :
          f \in {g \in perms :
                   \A i, j \in 1..n :
                      i < j => MayPrecede(list[g[i]], list[g[j]], g[i], g[j])}}

\* ---------------------------------------------------- eligibility filter
MutualInterestOneSided(me, other) ==
    /\ HasGenderFields(other)
    /\ (other.seeking_gender = "all" \/ other.seeking_gender = me.gender)

MutualInterestOwnGender(me, other) ==
    /\ HasGenderFields(other)
    /\ (other.seeking_gender = "all" \/ other.seeking_gender = me.gender)
    /\ (me.seeking_gender = "all" \/ me.seeking_gender = me.gender)

\* the gender preference filter of loadPoolAndMatch
MutualInterest(me, other) ==
    /\ HasGenderFields(other)
    /\ (other.seeking_gender = "all" \/ other.seeking_gender = me.gender)
    /\ (me.seeking_gender = "all" \/ me.seeking_gender = other.gender)

EligibleRows(rows, me) ==
    SelectSeq(rows, LAMBDA r : MutualInterest(users[me], users[r.user_id]))

ForceRowsAll(rows) == rows

\* forceMatchAfterWait: any present user with both gender fields set
ForceRows(rows) ==
    SelectSeq(rows, LAMBDA r : HasGenderFields(users[r.user_id]))

\* =========================================================== Matching view
IdlePoll == [pc |-> "idle", venue_id |-> NoId, latitude |-> NoCoord,
             longitude |-> NoCoord, eligible |-> <<>>]

IdleAttempt == [pc |-> "idle", kind |-> "none", venue_id |-> NoId,
                availableUsers |-> <<>>, usersWithDistance |-> <<>>,
                target |-> NoId,
                user1_id |-> NoId, user2_id |-> NoId]

FreeSlots(s) == {a \in AttemptSlots : attempts[s][a].pc = "idle"}
InFlight(s) == {a \in AttemptSlots : attempts[s][a].pc # "idle"}

GuardClearUnpaired(s) ==
    ~matchFoundRef[s] /\ ~matchingRef[s] /\ MatchedUserIds(s) = {}

\* !matchFoundRef.current && !matchingRef.current
GuardClear(s) == ~matchFoundRef[s] /\ ~matchingRef[s]

\* elapsed >= waitSeconds
DeadlineReached(e, w) == e >= w

\* useEffect(() => { matchFoundRef.current = matchFound !== null;
\*                   matchingRef.current = matching }, [matchFound, matching])
\* A commit whose matchFound or matching differs from the previous commit
\* schedules the effect; the effect runs later with the committed values.
Render(s) ==
    /\ mounted[s]
    /\ ~effectPending[s]
    /\ rendered[s] # [mf |-> matchFound[s], m |-> matching[s]]
    /\ rendered' = [rendered EXCEPT ![s] = [mf |-> matchFound[s], m |-> matching[s]]]
    /\ effectPending' = [effectPending EXCEPT ![s] = TRUE]
    /\ UNCHANGED <<storeVars, profile, mounted, elapsed, waitTicks, matching, matchFound,
                   matchingRef, matchFoundRef, poll, attempts, navTimer,
                   forceRuns, tapVars, chatVars>>

RunEffect(s) ==
    /\ effectPending[s]
    /\ effectPending' = [effectPending EXCEPT ![s] = FALSE]
    /\ matchFoundRef' = [matchFoundRef EXCEPT ![s] = rendered[s].mf # NoId]
    /\ matchingRef' = [matchingRef EXCEPT ![s] = rendered[s].m]
    /\ UNCHANGED <<storeVars, profile, mounted, elapsed, waitTicks, matching, matchFound,
                   rendered, poll, attempts, navTimer, forceRuns,
                   tapVars, chatVars>>

\* navigate(...) away from /matching: the view unmounts, the cleanup of the
\* timer effect clears both intervals.  Effects of the last commit run
\* before the unmount commit.
RefsAtUnmount(s) ==
    IF effectPending[s] THEN <<rendered[s].mf # NoId, rendered[s].m>>
                        ELSE <<matchFoundRef[s], matchingRef[s]>>

\* setInterval(loadPoolAndMatch, 3000): a tick starts loadPoolAndMatch,
\* which runs to its first await (the read of the own user_venues row)
PollTick(s) ==
    /\ mounted[s]
    /\ poll[s].pc = "idle"
    /\ poll' = [poll EXCEPT ![s] = [IdlePoll EXCEPT !.pc = "venue"]]
    /\ UNCHANGED <<storeVars, profile, mounted, elapsed, waitTicks, matching, matchFound,
                   matchingRef, matchFoundRef, rendered, effectPending,
                   attempts, navTimer, forceRuns, tapVars, chatVars>>

\* loadPoolAndMatch, from the own-row read to the next await
PollVenue(s, ok) ==
    /\ poll[s].pc = "venue"
    /\ LET venueData == OwnVenueRow(s, ok) IN
       IF venueData = NoRow
       THEN \* navigate('/venues'); return
            /\ poll' = [poll EXCEPT ![s] = IdlePoll]
            /\ mounted' = [mounted EXCEPT ![s] = FALSE]
            /\ matchFoundRef' = [matchFoundRef EXCEPT ![s] = RefsAtUnmount(s)[1]]
            /\ matchingRef' = [matchingRef EXCEPT ![s] = RefsAtUnmount(s)[2]]
            /\ effectPending' = [effectPending EXCEPT ![s] = FALSE]
       ELSE /\ poll' = [poll EXCEPT ![s] =
                          [pc |-> IF HasGenderFields(profile[s]) THEN "users"
                                                                 ELSE "profile",
                           venue_id |-> venueData.venue_id,
                           latitude |-> venueData.latitude,
                           longitude |-> venueData.longitude,
                           eligible |-> <<>>]]
            /\ UNCHANGED <<mounted, matchFoundRef, matchingRef, effectPending>>
    /\ UNCHANGED <<storeVars, profile, elapsed, waitTicks, matching, matchFound, rendered,
                   attempts, navTimer, forceRuns, tapVars, chatVars>>

\* loadPoolAndMatch, the getProfile call made when the session's profile
\* is missing or lacks gender or seeking_gender; from here on userProfile
\* is the row of the users table
PollProfile(s, ok) ==
    /\ poll[s].pc = "profile"
    /\ LET userProfile == IF ok THEN users[s] ELSE NoProfile IN
       IF ~HasGenderFields(userProfile)
       THEN \* navigate('/profile-setup'); return
            /\ poll' = [poll EXCEPT ![s] = IdlePoll]
            /\ mounted' = [mounted EXCEPT ![s] = FALSE]
            /\ matchFoundRef' = [matchFoundRef EXCEPT ![s] = RefsAtUnmount(s)[1]]
            /\ matchingRef' = [matchingRef EXCEPT ![s] = RefsAtUnmount(s)[2]]
            /\ effectPending' = [effectPending EXCEPT ![s] = FALSE]
       ELSE /\ poll' = [poll EXCEPT ![s].pc = "users"]
            /\ UNCHANGED <<mounted, matchFoundRef, matchingRef, effectPending>>
    /\ UNCHANGED <<storeVars, profile, elapsed, waitTicks, matching, matchFound, rendered,
                   attempts, navTimer, forceRuns, tapVars, chatVars>>

\* loadPoolAndMatch, from the venue's rows read to the matches read
PollUsers(s, ok) ==
    /\ poll[s].pc = "users"
    /\ IF ~ok
       THEN \* if (error) throw error  ->  catch, finally
            poll' = [poll EXCEPT ![s] = IdlePoll]
       ELSE poll' = [poll EXCEPT ![s].pc = "matches",
                                 ![s].eligible =
                                     EligibleRows(VenueRows(poll[s].venue_id, s), s)]
    /\ UNCHANGED <<storeVars, profile, mounted, elapsed, waitTicks, matching, matchFound,
                   matchingRef, matchFoundRef, rendered, effectPending,
                   attempts, navTimer, forceRuns, tapVars, chatVars>>

\* loadPoolAndMatch, from the matches read to the end, and tryAutoMatch up
\* to its insert when the tick calls it
PollMatches(s, ok) ==
    /\ poll[s].pc = "matches"
    /\ LET matchedUserIds == IF ok THEN MatchedUserIds(s) ELSE {}
           availableUsers == SelectSeq(poll[s].eligible,
                                 LAMBDA r : r.user_id \notin matchedUserIds)
       IN IF Len(availableUsers) > 0 /\ GuardClear(s)
          THEN \E a \in FreeSlots(s) :
               \E sorted \in usersWithDistance(availableUsers, poll[s].latitude,
                                               poll[s].longitude) :
                 LET target == sorted[1].user_id
                     pair == CanonicalPair(s, target)
                 IN /\ a = CHOOSE b \in FreeSlots(s) : \A c \in FreeSlots(s) : b <= c
                    /\ attempts' = [attempts EXCEPT ![s][a] =
                                      [pc |-> "insert", kind |-> "auto",
                                       venue_id |-> poll[s].venue_id,
                                       availableUsers |-> availableUsers,
                                       usersWithDistance |-> sorted,
                                       target |-> target,
                                       user1_id |-> pair[1],
                                       user2_id |-> pair[2]]]
                    /\ matching' = [matching EXCEPT ![s] = IF mounted[s] THEN TRUE ELSE @]
                    /\ matchingRef' = [matchingRef EXCEPT ![s] = TRUE]
          ELSE UNCHANGED <<attempts, matching, matchingRef>>
    /\ poll' = [poll EXCEPT ![s] = IdlePoll]
    /\ UNCHANGED <<storeVars, profile, mounted, elapsed, waitTicks, matchFound,
                   matchFoundRef, rendered, effectPending, navTimer, forceRuns, tapVars, chatVars>>

\* The wait timer (setInterval, 100 ms): count the tick, and once the
\* deadline is reached with both refs clear call forceMatchAfterWait, which
\* runs to its first await.  A callback before the deadline only counts, so
\* up to TickStride of them in a row are taken in one step; elapsed is kept
\* up to the deadline (Math.min(elapsed, waitSeconds)), which is all that
\* the comparison reads.
WaitTick(s) ==
    /\ mounted[s]
    /\ LET e == IF elapsed[s] + TickStride < waitTicks[s]
                THEN elapsed[s] + TickStride ELSE waitTicks[s]
       IN /\ elapsed' = [elapsed EXCEPT ![s] = e]
          /\ IF DeadlineReached(e, waitTicks[s]) /\ GuardClear(s)
             THEN \E a \in FreeSlots(s) :
                    /\ a = CHOOSE b \in FreeSlots(s) : \A c \in FreeSlots(s) : b <= c
                    /\ attempts' = [attempts EXCEPT ![s][a] =
                                      [IdleAttempt EXCEPT !.pc = "venue",
                                                          !.kind = "force"]]
                    /\ matching' = [matching EXCEPT ![s] = TRUE]
                    /\ matchingRef' = [matchingRef EXCEPT ![s] = TRUE]
                    /\ forceRuns' = [forceRuns EXCEPT ![s] =
                                       IF @ < MaxForceRuns THEN @ + 1 ELSE @]
             ELSE /\ elapsed[s] < waitTicks[s]
                  /\ UNCHANGED <<attempts, matching, matchingRef, forceRuns>>
    /\ UNCHANGED <<storeVars, profile, mounted, waitTicks, matchFound, matchFoundRef,
                   rendered, effectPending, poll, navTimer, tapVars,
                   chatVars>>

\* finally { setMatching(false); matchingRef.current = false }
\* (a state setter of an unmounted view does nothing)
FinallyMatching(s) ==
    /\ matching' = [matching EXCEPT ![s] = IF mounted[s] THEN FALSE ELSE @]
    /\ matchingRef' = [matchingRef EXCEPT ![s] = FALSE]

\* forceMatchAfterWait, from the own-row read to the next await
ForceVenue(s, a, ok) ==
    /\ attempts[s][a].pc = "venue"
    /\ attempts[s][a].kind = "force"
    /\ LET venueData == OwnVenueRow(s, ok) IN
       IF venueData = NoRow
       THEN \* if (!venueData) return
            /\ attempts' = [attempts EXCEPT ![s][a] = IdleAttempt]
            /\ FinallyMatching(s)
       ELSE /\ attempts' = [attempts EXCEPT
                              ![s][a].pc = IF HasGenderFields(profile[s])
                                           THEN "users" ELSE "profile",
                              ![s][a].venue_id = venueData.venue_id]
            /\ UNCHANGED <<matching, matchingRef>>
    /\ UNCHANGED <<storeVars, profile, mounted, elapsed, waitTicks, matchFound,
                   matchFoundRef, rendered, effectPending, poll, navTimer,
                   forceRuns, tapVars, chatVars>>

\* forceMatchAfterWait, the getProfile call; its result is not used
ForceProfile(s, a, ok) ==
    /\ attempts[s][a].pc = "profile"
    /\ attempts' = [attempts EXCEPT ![s][a].pc = "users"]
    /\ UNCHANGED <<storeVars, profile, mounted, elapsed, waitTicks, matching, matchFound,
                   matchingRef, matchFoundRef, rendered, effectPending, poll,
                   navTimer, forceRuns, tapVars, chatVars>>

\* forceMatchAfterWait, from the venue's rows read to the insert
ForceUsers(s, a, ok) ==
    /\ attempts[s][a].pc = "users"
    /\ LET usersData == IF ok THEN VenueRows(attempts[s][a].venue_id, s) ELSE <<>>
           availableUsers == ForceRows(usersData)
       IN IF Len(availableUsers) > 0
          THEN LET target == availableUsers[1].user_id
                   pair == CanonicalPair(s, target)
               IN /\ attempts' = [attempts EXCEPT ![s][a].pc = "insert",
                                                  ![s][a].availableUsers = availableUsers,
                                                  ![s][a].target = target,
                                                  ![s][a].user1_id = pair[1],
                                                  ![s][a].user2_id = pair[2]]
                  /\ UNCHANGED <<matching, matchingRef>>
          ELSE /\ attempts' = [attempts EXCEPT ![s][a] = IdleAttempt]
               /\ FinallyMatching(s)
    /\ UNCHANGED <<storeVars, profile, mounted, elapsed, waitTicks, matchFound,
                   matchFoundRef, rendered, effectPending, poll, navTimer,
                   forceRuns, tapVars, chatVars>>

\* tryAutoMatch and forceMatchAfterWait, from the insert into matches to
\* the end.  Both insert { user1_id, user2_id } without an icebreaker; on
\* an error tryAutoMatch throws into its catch and forceMatchAfterWait
\* skips its if: neither reads the existing row back.
AttemptInsert(s, a, ok) ==
    /\ attempts[s][a].pc = "insert"
    /\ LET u1 == attempts[s][a].user1_id
           u2 == attempts[s][a].user2_id
           id == Len(matches) + 1
       IN IF InsertAccepted(u1, u2, ok)
          THEN /\ matches' = Append(matches, MatchRow(u1, u2, "none"))
               /\ matchFound' = [matchFound EXCEPT ![s] = IF mounted[s] THEN id ELSE @]
               /\ matchFoundRef' = [matchFoundRef EXCEPT ![s] = TRUE]
               /\ navTimer' = [navTimer EXCEPT ![s] = id]
          ELSE UNCHANGED <<matches, matchFound, matchFoundRef, navTimer>>
    /\ attempts' = [attempts EXCEPT ![s][a] = IdleAttempt]
    /\ FinallyMatching(s)
    /\ UNCHANGED <<user_venues, users, profile, mounted, elapsed, waitTicks, rendered,
                   effectPending, poll, forceRuns, tapVars, chatVars>>

\* setTimeout(() => navigate(`/match-result/${data.id}`), 2000)
NavFire(s) ==
    /\ navTimer[s] # NoId
    /\ navTimer' = [navTimer EXCEPT ![s] = NoId]
    /\ mounted' = [mounted EXCEPT ![s] = FALSE]
    /\ matchFoundRef' = [matchFoundRef EXCEPT ![s] = RefsAtUnmount(s)[1]]
    /\ matchingRef' = [matchingRef EXCEPT ![s] = RefsAtUnmount(s)[2]]
    /\ effectPending' = [effectPending EXCEPT ![s] = FALSE]
    /\ UNCHANGED <<storeVars, profile, elapsed, waitTicks, matching, matchFound, rendered,
                   poll, attempts, forceRuns, tapVars, chatVars>>

\* the back button: navigate('/venues')
Leave(s) ==
    /\ mounted[s]
    /\ mounted' = [mounted EXCEPT ![s] = FALSE]
    /\ matchFoundRef' = [matchFoundRef EXCEPT ![s] = RefsAtUnmount(s)[1]]
    /\ matchingRef' = [matchingRef EXCEPT ![s] = RefsAtUnmount(s)[2]]
    /\ effectPending' = [effectPending EXCEPT ![s] = FALSE]
    /\ UNCHANGED <<storeVars, profile, elapsed, waitTicks, matching, matchFound, rendered,
                   poll, attempts, navTimer, forceRuns, tapVars,
                   chatVars>>

\* ======================================================== ActiveUsers view
IdleTap == [pc |-> "idle", target |-> NoId, icebreaker |-> "none"]

\* loadActiveUsers: the users at the own venue that are not yet matched
\* with this user (no gender filter)
LoadActiveUsers(t, ok) ==
    /\ LET venueData == OwnVenueRow(t, ok) IN
       /\ venueData # NoRow
       /\ LET rows == VenueRows(venueData.venue_id, t)
              shown == SelectSeq(rows, LAMBDA r : r.user_id \notin MatchedUserIds(t))
          IN activeUsers' = [activeUsers EXCEPT ![t] =
                               {shown[i].user_id : i \in DOMAIN shown}]
    /\ UNCHANGED <<storeVars, matchVars, tap, venueSel, chatVars>>

\* handleMatch(targetUserId), up to the icebreaker completion call
HandleMatch(t, target) ==
    /\ tap[t].pc = "idle"
    /\ target \in activeUsers[t]
    /\ tap' = [tap EXCEPT ![t] = [pc |-> "ice", target |-> target,
                                  icebreaker |-> "none"]]
    /\ UNCHANGED <<storeVars, matchVars, activeUsers, venueSel, chatVars>>

\* handleMatch, the icebreaker: the completion, or the fixed line when the
\* profile reads or the completion throw
TapIcebreaker(t, aiOk) ==
    /\ tap[t].pc = "ice"
    /\ tap' = [tap EXCEPT ![t].pc = "insert",
                          ![t].icebreaker = IF aiOk THEN "generated" ELSE "fallback"]
    /\ UNCHANGED <<storeVars, matchVars, activeUsers, venueSel, chatVars>>

\* handleMatch, from the insert into matches to the end
TapInsert(t, ok) ==
    /\ tap[t].pc = "insert"
    /\ LET pair == CanonicalPair(t, tap[t].target) IN
       IF InsertAccepted(pair[1], pair[2], ok)
       THEN matches' = Append(matches, MatchRow(pair[1], pair[2], tap[t].icebreaker))
       ELSE UNCHANGED matches
    /\ tap' = [tap EXCEPT ![t] = IdleTap]
    /\ UNCHANGED <<user_venues, users, matchVars, activeUsers, venueSel, chatVars>>

\* ===================================================== VenueSelection view
\* the user of the VenueSelection view, and the venues it lists
Joiner == 1
Venues == {1, 2}

\* getCurrentLocation(): a position, or { latitude: null, longitude: null }
\* when it rejects
Locations == {NoCoord, 1}

\* the view is not on screen
VenueClosed ==
    [mounted |-> FALSE, loadPc |-> "idle", selectedVenue |-> NoId,
     joining |-> FALSE, pc |-> "idle", venueId |-> NoId, closure |-> NoId,
     location |-> NoCoord, joins |-> 0]

\* useEffect(() => { loadVenues(); loadCurrentVenue() }, []): the view
\* mounts with selectedVenue null and loadCurrentVenue at its await
VenueOpen ==
    /\ ~venueSel.mounted
    /\ venueSel.pc = "idle"
    /\ venueSel.loadPc = "idle"
    /\ venueSel' = [venueSel EXCEPT !.mounted = TRUE, !.loadPc = "loading",
                                    !.selectedVenue = NoId, !.joining = FALSE]
    /\ UNCHANGED <<storeVars, matchVars, activeUsers, tap, chatVars>>

\* loadCurrentVenue: if (data && !error) setSelectedVenue(data.venue_id)
LoadCurrentVenue(ok) ==
    /\ venueSel.loadPc = "loading"
    /\ LET data == OwnVenueRow(Joiner, ok) IN
       venueSel' = [venueSel EXCEPT
                      !.loadPc = "idle",
                      !.selectedVenue = IF data # NoRow /\ venueSel.mounted
                                        THEN data.venue_id ELSE @]
    /\ UNCHANGED <<storeVars, matchVars, activeUsers, tap, chatVars>>

\* handleJoinVenue(venueId), up to the await of getCurrentLocation.  The
\* venue's button is disabled while joining or when it is the selected one;
\* the call closes over the selectedVenue of its render.
HandleJoinVenue(venueId) ==
    /\ venueSel.mounted
    /\ venueSel.pc = "idle"
    /\ ~venueSel.joining
    /\ venueSel.selectedVenue # venueId
    /\ venueSel.joins < MaxJoins
    /\ venueSel' = [venueSel EXCEPT !.joining = TRUE, !.pc = "locate",
                                    !.venueId = venueId,
                                    !.closure = venueSel.selectedVenue,
                                    !.joins = @ + 1]
    /\ UNCHANGED <<storeVars, matchVars, activeUsers, tap, chatVars>>

\* handleJoinVenue, from the location to the next await: the delete of the
\* row of the selected venue, or the insert when no venue is selected
JoinLocated(loc) ==
    /\ venueSel.pc = "locate"
    /\ venueSel' = [venueSel EXCEPT
                      !.location = loc,
                      !.pc = IF venueSel.closure # NoId THEN "delete" ELSE "insert"]
    /\ UNCHANGED <<storeVars, matchVars, activeUsers, tap, chatVars>>

\* handleJoinVenue, the delete of (user.id, selectedVenue); its result is
\* not looked at
JoinDelete(ok) ==
    /\ venueSel.pc = "delete"
    /\ user_venues' =
          IF ok THEN SelectSeq(user_venues,
                         LAMBDA r : ~(r.user_id = Joiner /\ r.venue_id = venueSel.closure))
                ELSE user_venues
    /\ venueSel' = [venueSel EXCEPT !.pc = "insert"]
    /\ UNCHANGED <<users, matches, matchVars, activeUsers, tap, chatVars>>

\* handleJoinVenue, from the insert to the end: setSelectedVenue and
\* navigate('/matching'), or the alert; finally setJoining(false)
JoinInsert(ok) ==
    /\ venueSel.pc = "insert"
    /\ IF ok
       THEN /\ user_venues' = Append(user_venues,
                                  [user_id |-> Joiner,
                                   venue_id |-> venueSel.venueId,
                                   latitude |-> venueSel.location,
                                   longitude |-> venueSel.location])
            /\ venueSel' = [venueSel EXCEPT
                              !.pc = "idle", !.joining = FALSE,
                              !.selectedVenue = IF venueSel.mounted
                                                THEN venueSel.venueId ELSE @,
                              !.mounted = FALSE]
       ELSE /\ UNCHANGED user_venues
            /\ venueSel' = [venueSel EXCEPT !.pc = "idle", !.joining = FALSE]
    /\ UNCHANGED <<users, matches, matchVars, activeUsers, tap, chatVars>>

\* the Start Matching button: navigate('/matching')
StartMatching ==
    /\ venueSel.mounted
    /\ venueSel.selectedVenue # NoId
    /\ venueSel' = [venueSel EXCEPT !.mounted = FALSE]
    /\ UNCHANGED <<storeVars, matchVars, activeUsers, tap, chatVars>>

\* =============================================================== Chat view
NoMatch == [user1_id |-> NoId, user2_id |-> NoId, icebreaker |-> "none"]

IdleSend == [pc |-> "idle", match |-> NoMatch]
IdleGen == [pc |-> "idle", re |-> 0, otherUserId |-> NoId, context |-> <<>>]
GenSlots == 1..MaxHuman

Message(sender, re) == [sender_id |-> sender, re |-> re]

HumanCount == Cardinality({i \in DOMAIN messages : messages[i].sender_id = userId})
AutoCount == Cardinality({i \in DOMAIN messages : messages[i].sender_id # userId})
GensInFlight == {g \in GenSlots : gens[g].pc # "idle"}

\* no chat session is open
ChatClosed ==
    /\ messages = <<>>
    /\ userId = NoId
    /\ match = NoMatch
    /\ matchPc = "idle"
    /\ sending = FALSE
    /\ generatingAI = FALSE
    /\ aiReplyRef = FALSE
    /\ sendPc = IdleSend
    /\ replyTimers = <<>>
    /\ gens = [g \in GenSlots |-> IdleGen]
    /\ lastGen = "none"

\* loadMatch: setMatch(data), or nothing when the read throws
LoadMatch(ok) ==
    /\ matchPc = "loading"
    /\ matchPc' = "idle"
    /\ match' = IF ok THEN matches[1] ELSE match
    /\ UNCHANGED <<storeVars, matchVars, tapVars, messages, userId, sending,
                   generatingAI, aiReplyRef, sendPc, replyTimers, gens, lastGen>>

\* sendMessage, up to the insert of the human message.  A submit with an
\* empty box, or while sending or generatingAI is set, returns at once.
SendMessage ==
    /\ userId # NoId
    /\ ~sending
    /\ ~generatingAI
    /\ HumanCount < MaxHuman
    /\ sending' = TRUE
    /\ sendPc' = [pc |-> "insert", match |-> match]
    /\ UNCHANGED <<storeVars, matchVars, tapVars, messages, userId, match, matchPc,
                   generatingAI, aiReplyRef, replyTimers, gens, lastGen>>

\* if (error) throw error
SendProceeds(ok) == ok

\* sendMessage, from the insert to the loadMessages call; a failed insert
\* throws to the catch and the finally
SendInsert(ok) ==
    /\ sendPc.pc = "insert"
    /\ messages' = IF ok THEN Append(messages, Message(userId, 0)) ELSE messages
    /\ IF SendProceeds(ok)
       THEN /\ sendPc' = [sendPc EXCEPT !.pc = "load"]
            /\ UNCHANGED sending
       ELSE /\ sendPc' = IdleSend
            /\ sending' = FALSE
    /\ UNCHANGED <<storeVars, matchVars, tapVars, userId, match, matchPc,
                   generatingAI, aiReplyRef, replyTimers, gens, lastGen>>

\* sendMessage, after loadMessages: aiReplyRef.current = false, the reply
\* check is scheduled 2 s ahead, finally setSending(false)
SendLoaded ==
    /\ sendPc.pc = "load"
    /\ aiReplyRef' = FALSE
    /\ replyTimers' = Append(replyTimers, sendPc.match)
    /\ sendPc' = IdleSend
    /\ sending' = FALSE
    /\ UNCHANGED <<storeVars, matchVars, tapVars, messages, userId, match, matchPc,
                   generatingAI, gens, lastGen>>

OtherUserIdSwapped(m, u) == IF m.user1_id = u THEN m.user1_id ELSE m.user2_id

\* match.user1_id === user.id ? match.user2_id : match.user1_id
OtherUserId(m, u) == IF m.user1_id = u THEN m.user2_id ELSE m.user1_id

CheckPassesAnySender(last, guard) == ~guard

\* lastMessage.sender_id === user.id && !aiReplyRef.current
CheckPasses(last, guard) == last.sender_id = userId /\ ~guard

\* conversationHistory.map(msg => ({ role, content })): a message is stood
\* for by its position in the list
chatMessages(conversationHistory, u) ==
    [i \in DOMAIN conversationHistory |->
        [role |-> IF conversationHistory[i].sender_id = u THEN "user" ELSE "assistant",
         content |-> i]]

sliceHead(seq, n) == SubSeq(seq, 1, IF Len(seq) < n THEN Len(seq) ELSE n)

\* seq.slice(-n)
slice(seq, n) == SubSeq(seq, IF Len(seq) > n THEN Len(seq) - n + 1 ELSE 1, Len(seq))

\* messages: [{ role: 'system', content: systemPrompt }, ...chatMessages.slice(-10)]
Context(conversationHistory, u) ==
    <<[role |-> "system", content |-> 0]>>
        \o slice(chatMessages(conversationHistory, u), ContextSize)

RemoveAt(seq, i) == SubSeq(seq, 1, i - 1) \o SubSeq(seq, i + 1, Len(seq))

\* The reply check: the timer callback re-reads the messages and, when the
\* last one is from the user and aiReplyRef is clear, calls generateAIReply,
\* which sets generatingAI and aiReplyRef and runs to the completion call.
\* (generatingAI as generateAIReply reads it is the value sendMessage closed
\* over, which was false.)
ReplyCheck(i, ok) ==
    /\ i \in DOMAIN replyTimers
    /\ replyTimers' = RemoveAt(replyTimers, i)
    /\ LET m == replyTimers[i]
           latestMessages == IF ok THEN messages ELSE <<>>
       IN IF /\ m # NoMatch
             /\ Len(latestMessages) > 0
             /\ CheckPasses(latestMessages[Len(latestMessages)], aiReplyRef)
          THEN \E g \in GenSlots :
                 /\ g = CHOOSE h \in GenSlots \ GensInFlight :
                            \A k \in GenSlots \ GensInFlight : h <= k
                 /\ gens' = [gens EXCEPT ![g] =
                               [pc |-> "ai", re |-> Len(latestMessages),
                                otherUserId |-> OtherUserId(m, userId),
                                context |-> Context(latestMessages, userId)]]
                 /\ generatingAI' = TRUE
                 /\ aiReplyRef' = TRUE
          ELSE UNCHANGED <<gens, generatingAI, aiReplyRef>>
    /\ UNCHANGED <<storeVars, matchVars, tapVars, messages, userId, match, matchPc,
                   sending, sendPc, lastGen>>

\* finally { setGeneratingAI(false); aiReplyRef.current = false }
ReplyGuardAfterSuccessOnly(outcome, current) ==
    IF outcome = "replied" THEN FALSE ELSE current

ReplyGuardAfter(outcome, current) == FALSE

GenFinally(g, outcome) ==
    /\ gens' = [gens EXCEPT ![g] = IdleGen]
    /\ generatingAI' = FALSE
    /\ aiReplyRef' = ReplyGuardAfter(outcome, aiReplyRef)
    /\ lastGen' = outcome

\* generateAIReply, from the completion call to the insert of the reply; a
\* failed completion throws to the catch and the finally
GenCompletion(g, aiOk) ==
    /\ gens[g].pc = "ai"
    /\ IF aiOk
       THEN /\ gens' = [gens EXCEPT ![g].pc = "insert"]
            /\ UNCHANGED <<generatingAI, aiReplyRef, lastGen>>
       ELSE GenFinally(g, "aiFailed")
    /\ UNCHANGED <<storeVars, matchVars, tapVars, messages, userId, match, matchPc,
                   sending, sendPc, replyTimers>>

\* generateAIReply, from the insert of the reply to the loadMessages call
GenInsert(g, ok) ==
    /\ gens[g].pc = "insert"
    /\ IF ok
       THEN /\ messages' = Append(messages, Message(gens[g].otherUserId, gens[g].re))
            /\ gens' = [gens EXCEPT ![g].pc = "load"]
            /\ UNCHANGED <<generatingAI, aiReplyRef, lastGen>>
       ELSE /\ GenFinally(g, "insertFailed")
            /\ UNCHANGED messages
    /\ UNCHANGED <<storeVars, matchVars, tapVars, userId, match, matchPc, sending,
                   sendPc, replyTimers>>

\* generateAIReply, after loadMessages: the finally
GenLoaded(g) ==
    /\ gens[g].pc = "load"
    /\ GenFinally(g, "replied")
    /\ UNCHANGED <<storeVars, matchVars, tapVars, messages, userId, match, matchPc,
                   sending, sendPc, replyTimers>>

\* ==================================================================== Init
Profile(g, sg) == [gender |-> g, seeking_gender |-> sg]
Row(u, v, lat, lon) == [user_id |-> u, venue_id |-> v, latitude |-> lat,
                        longitude |-> lon]

\* the profiles of the three users: with mutual interest between 1 and 2
\* and between 1 and 3; with no mutual interest at all and user 3 lacking
\* its gender fields
CompleteProfiles ==
    { <<Profile("male", "female"), Profile("female", "male"), Profile("female", "all")>>,
      <<Profile("male", "female"), Profile("male", "female"), Profile("null", "null")>> }

\* ... or with user 1 itself lacking its gender fields
ProfileChoices ==
    CompleteProfiles
        \cup { <<Profile("null", "null"), Profile("female", "male"), Profile("male", "all")>> }

\* the presence rows: everybody at venue 1 with coordinates; or user 3
\* first and without coordinates
SharedVenue ==
    { <<Row(1, 1, 1, 1), Row(2, 1, 1, 2), Row(3, 1, 3, 1)>>,
      <<Row(3, 1, NoCoord, NoCoord), Row(2, 1, 1, 2), Row(1, 1, 1, 1)>> }

\* ... or user 1 alone at venue 1
PresenceChoices ==
    SharedVenue \cup { <<Row(1, 1, 1, 1), Row(2, 2, 1, 2), Row(3, 2, 3, 1)>> }

\* 5 + Math.random() * 3 seconds, in ticks of 0.1 s
WaitChoices == {WaitMinTicks, WaitMinTicks + WaitSpanTicks - 1}

\* matches rows left by earlier visits: none, or user 1 already paired with
\* user 2
EarlierMatches == { <<>>, <<MatchRow(1, 2, "none")>> }

\* The state after the Matching views of the sessions in `open` have
\* mounted: the first loadPoolAndMatch is at its first await, both
\* intervals are set, the deadline is drawn.  The profile a session holds
\* is its row of the users table or, unless `loaded`, not loaded yet.
InitWith(open, profiles, loaded, presence, earlier, waits) ==
    /\ users \in profiles
    /\ profile \in [Sessions -> {users[u] : u \in Users} \cup {NoProfile}]
    /\ \A s \in Sessions :
          \/ profile[s] = users[s]
          \/ ~loaded /\ s \in open /\ profile[s] = NoProfile
    /\ user_venues \in presence
    /\ matches \in earlier
    /\ mounted = [s \in Sessions |-> s \in open]
    /\ elapsed = [s \in Sessions |-> 0]
    /\ waitTicks \in [Sessions -> waits]
    /\ \A s \in Sessions \ open : waitTicks[s] = WaitMinTicks
    /\ matching = [s \in Sessions |-> FALSE]
    /\ matchFound = [s \in Sessions |-> NoId]
    /\ matchingRef = [s \in Sessions |-> FALSE]
    /\ matchFoundRef = [s \in Sessions |-> FALSE]
    /\ rendered = [s \in Sessions |-> [mf |-> NoId, m |-> FALSE]]
    /\ effectPending = [s \in Sessions |-> FALSE]
    /\ poll = [s \in Sessions |->
                 IF s \in open THEN [IdlePoll EXCEPT !.pc = "venue"] ELSE IdlePoll]
    /\ attempts = [s \in Sessions |-> [a \in AttemptSlots |-> IdleAttempt]]
    /\ navTimer = [s \in Sessions |-> NoId]
    /\ forceRuns = [s \in Sessions |-> 0]
    /\ activeUsers = [t \in Tappers |-> {}]
    /\ tap = [t \in Tappers |-> IdleTap]
    /\ venueSel = VenueClosed
    /\ ChatClosed

\* One session, user 1, on the Matching view; users 2 and 3 are present
Init == InitWith({1}, ProfileChoices, FALSE, PresenceChoices, EarlierMatches, WaitChoices)

\* the steps of the Matching view of a session whose profile is complete
SessionStep(s, oks) ==
    \/ PollTick(s)
    \/ \E ok \in oks : PollVenue(s, ok)
    \/ \E ok \in oks : PollUsers(s, ok)
    \/ \E ok \in oks : PollMatches(s, ok)
    \/ WaitTick(s)
    \/ \E a \in AttemptSlots, ok \in oks : ForceVenue(s, a, ok)
    \/ \E a \in AttemptSlots, ok \in oks : ForceUsers(s, a, ok)
    \/ \E a \in AttemptSlots, ok \in oks : AttemptInsert(s, a, ok)

\* the getProfile calls made when the session's profile is incomplete
ProfileStep(s, oks) ==
    \/ \E ok \in oks : PollProfile(s, ok)
    \/ \E a \in AttemptSlots, ok \in oks : ForceProfile(s, a, ok)

Next ==
    \/ \E s \in Sessions : SessionStep(s, BOOLEAN)
    \/ \E s \in Sessions : ProfileStep(s, BOOLEAN)
    \/ \E s \in Sessions : Render(s)
    \/ \E s \in Sessions : RunEffect(s)
    \/ \E s \in Sessions : NavFire(s)
    \/ \E s \in Sessions : Leave(s)

Spec == Init /\ [][Next]_vars

\* Two sessions, users 1 and 2, on the Matching view at the same venue and
\* user 3 on the ActiveUsers view, all racing for the matches table.  The
\* store and the completion calls succeed, the sessions stay on the view
\* and their refs are written by the handlers only (every commit's effect
\* has run before the next callback).
InitRace == InitWith({1, 2}, CompleteProfiles, TRUE, SharedVenue, {<<>>}, {WaitMinTicks})

NextRace ==
    \/ \E s \in Sessions : SessionStep(s, {TRUE})
    \/ \E t \in Tappers, ok \in {TRUE} : LoadActiveUsers(t, ok)
    \/ \E t \in Tappers, target \in Users : HandleMatch(t, target)
    \/ \E t \in Tappers, aiOk \in {TRUE} : TapIcebreaker(t, aiOk)
    \/ \E t \in Tappers, ok \in {TRUE} : TapInsert(t, ok)

RaceSpec == InitRace /\ [][NextRace]_vars

\* One session that stays on the Matching view while every store call
\* succeeds.  The intervals keep firing, every pending call returns and
\* every scheduled commit and effect runs: each step that stays enabled is
\* eventually taken.
InitLive == InitWith({1}, CompleteProfiles, TRUE, SharedVenue, EarlierMatches, {WaitMinTicks})

NextLive ==
    \/ \E s \in Sessions : SessionStep(s, {TRUE})
    \/ \E s \in Sessions : Render(s)
    \/ \E s \in Sessions : RunEffect(s)
    \/ \E s \in Sessions : NavFire(s)

FairLive ==
    \A s \in Sessions :
        /\ WF_vars(PollTick(s))
        /\ WF_vars(PollVenue(s, TRUE))
        /\ WF_vars(PollUsers(s, TRUE))
        /\ WF_vars(PollMatches(s, TRUE))
        /\ WF_vars(WaitTick(s))
        /\ WF_vars(\E a \in AttemptSlots : ForceVenue(s, a, TRUE))
        /\ WF_vars(\E a \in AttemptSlots : ForceUsers(s, a, TRUE))
        /\ WF_vars(\E a \in AttemptSlots : AttemptInsert(s, a, TRUE))
        /\ WF_vars(Render(s))
        /\ WF_vars(RunEffect(s))
        /\ WF_vars(NavFire(s))

LiveSpec == InitLive /\ [][NextLive]_vars /\ FairLive

\* One session, user 1, polling the pool of its venue while every store
\* call succeeds, over every combination of the requester's and user 2's
\* gender fields, a few profiles of user 3 and presence rows with known,
\* unknown, zero, equal and remote coordinates.
AnyProfile ==
    {Profile(g, sg) : g \in {"male", "female", "null"},
                      sg \in {"male", "female", "all", "null"}}

PoolProfiles ==
    {<<p1, p2, p3>> : p1 \in AnyProfile, p2 \in AnyProfile,
                      p3 \in {Profile("female", "all"), Profile("male", "female"),
                              Profile("null", "null")}}

PoolPresence ==
    SharedVenue \cup
    { <<Row(1, 1, 1, 1), Row(2, 1, 3, 3), Row(3, 1, 1, 2)>>,
      <<Row(1, 1, 1, 1), Row(2, 1, NoCoord, NoCoord), Row(3, 1, NoCoord, 1)>>,
      <<Row(1, 1, NoCoord, NoCoord), Row(2, 1, 1, 2), Row(3, 1, 3, 1)>>,
      <<Row(1, 1, 1, 1), Row(3, 1, 2, 1), Row(2, 1, 1, 2)>>,
      <<Row(1, 1, 1, 1), Row(2, 1, 0, 1), Row(3, 1, 3, 3)>>,
      <<Row(1, 1, 1, 1), Row(2, 1, 1, 2), Row(3, 2, 3, 1)>> }

InitPool == InitWith({1}, PoolProfiles, TRUE, PoolPresence, EarlierMatches, {WaitMinTicks})

NextPool ==
    \E s \in Sessions :
        \/ PollTick(s)
        \/ PollVenue(s, TRUE)
        \/ PollProfile(s, TRUE)
        \/ PollUsers(s, TRUE)
        \/ PollMatches(s, TRUE)
        \/ \E a \in AttemptSlots : AttemptInsert(s, a, TRUE)
        \/ NavFire(s)

PoolSpec == InitPool /\ [][NextPool]_vars

\* Two sessions, users 1 (male seeking female) and 2 (female seeking male),
\* mount the Matching view at the same venue; user 3 is present with both
\* gender fields set and is eligible for neither.  Store calls succeed.
PairProfiles ==
    { <<Profile("male", "female"), Profile("female", "male"), Profile("male", "male")>> }

InitPair == InitWith({1, 2}, PairProfiles, TRUE, SharedVenue, {<<>>}, {WaitMinTicks})

NextPair ==
    \E s \in Sessions :
        \/ SessionStep(s, {TRUE})
        \/ NavFire(s)

PairSpec == InitPair /\ [][NextPair]_vars

\* The Chat view of the match of users 1 and 2, opened by either of them:
\* loadMatch is in flight, no message has been sent.
InitChat ==
    /\ users \in CompleteProfiles
    /\ user_venues \in SharedVenue
    /\ matches = <<MatchRow(1, 2, "none")>>
    /\ profile = [s \in Sessions |-> users[s]]
    /\ mounted = [s \in Sessions |-> FALSE]
    /\ elapsed = [s \in Sessions |-> 0]
    /\ waitTicks = [s \in Sessions |-> WaitMinTicks]
    /\ matching = [s \in Sessions |-> FALSE]
    /\ matchFound = [s \in Sessions |-> NoId]
    /\ matchingRef = [s \in Sessions |-> FALSE]
    /\ matchFoundRef = [s \in Sessions |-> FALSE]
    /\ rendered = [s \in Sessions |-> [mf |-> NoId, m |-> FALSE]]
    /\ effectPending = [s \in Sessions |-> FALSE]
    /\ poll = [s \in Sessions |-> IdlePoll]
    /\ attempts = [s \in Sessions |-> [a \in AttemptSlots |-> IdleAttempt]]
    /\ navTimer = [s \in Sessions |-> NoId]
    /\ forceRuns = [s \in Sessions |-> 0]
    /\ activeUsers = [t \in Tappers |-> {}]
    /\ tap = [t \in Tappers |-> IdleTap]
    /\ venueSel = VenueClosed
    /\ messages = <<>>
    /\ userId \in {1, 2}
    /\ match = NoMatch
    /\ matchPc = "loading"
    /\ sending = FALSE
    /\ generatingAI = FALSE
    /\ aiReplyRef = FALSE
    /\ sendPc = IdleSend
    /\ replyTimers = <<>>
    /\ gens = [g \in GenSlots |-> IdleGen]
    /\ lastGen = "none"

NextChat ==
    \/ \E ok \in BOOLEAN : LoadMatch(ok)
    \/ SendMessage
    \/ \E ok \in BOOLEAN : SendInsert(ok)
    \/ SendLoaded
    \/ \E i \in 1..MaxHuman, ok \in BOOLEAN : ReplyCheck(i, ok)
    \/ \E g \in GenSlots, aiOk \in BOOLEAN : GenCompletion(g, aiOk)
    \/ \E g \in GenSlots, ok \in BOOLEAN : GenInsert(g, ok)
    \/ \E g \in GenSlots : GenLoaded(g)

ChatSpec == InitChat /\ [][NextChat]_vars

\* ------------------------------------- the stretch up to the next poll tick
\* One session from its mount until setInterval(loadPoolAndMatch, 3000)
\* fires for the first time: the mount's own loadPoolAndMatch and the wait
\* timer run, no poll tick starts.  Every store call succeeds.
InitEscalate ==
    InitWith({1}, CompleteProfiles, TRUE, PresenceChoices, EarlierMatches, WaitChoices)

NextEscalate ==
    \E s \in Sessions :
        \/ PollVenue(s, TRUE)
        \/ PollUsers(s, TRUE)
        \/ PollMatches(s, TRUE)
        \/ WaitTick(s)
        \/ \E a \in AttemptSlots : ForceVenue(s, a, TRUE)
        \/ \E a \in AttemptSlots : ForceUsers(s, a, TRUE)
        \/ \E a \in AttemptSlots : AttemptInsert(s, a, TRUE)
        \/ NavFire(s)

EscalateSpec == InitEscalate /\ [][NextEscalate]_vars

\* ------------------------------------------------- VenueSelection alone
\* the presence rows when the view opens: the user at venue 1, or nowhere
VenuePresence ==
    PresenceChoices \cup { <<Row(2, 1, 1, 2), Row(3, 2, 3, 1)>> }

InitVenue ==
    /\ users \in CompleteProfiles
    /\ user_venues \in VenuePresence
    /\ matches = <<>>
    /\ profile = [s \in Sessions |-> users[s]]
    /\ mounted = [s \in Sessions |-> FALSE]
    /\ elapsed = [s \in Sessions |-> 0]
    /\ waitTicks = [s \in Sessions |-> WaitMinTicks]
    /\ matching = [s \in Sessions |-> FALSE]
    /\ matchFound = [s \in Sessions |-> NoId]
    /\ matchingRef = [s \in Sessions |-> FALSE]
    /\ matchFoundRef = [s \in Sessions |-> FALSE]
    /\ rendered = [s \in Sessions |-> [mf |-> NoId, m |-> FALSE]]
    /\ effectPending = [s \in Sessions |-> FALSE]
    /\ poll = [s \in Sessions |-> IdlePoll]
    /\ attempts = [s \in Sessions |-> [a \in AttemptSlots |-> IdleAttempt]]
    /\ navTimer = [s \in Sessions |-> NoId]
    /\ forceRuns = [s \in Sessions |-> 0]
    /\ activeUsers = [t \in Tappers |-> {}]
    /\ tap = [t \in Tappers |-> IdleTap]
    /\ venueSel = [VenueClosed EXCEPT !.mounted = TRUE, !.loadPc = "loading"]
    /\ ChatClosed

NextVenue ==
    \/ VenueOpen
    \/ \E ok \in BOOLEAN : LoadCurrentVenue(ok)
    \/ \E venueId \in Venues : HandleJoinVenue(venueId)
    \/ \E loc \in Locations : JoinLocated(loc)
    \/ \E ok \in BOOLEAN : JoinDelete(ok)
    \/ \E ok \in BOOLEAN : JoinInsert(ok)
    \/ StartMatching

VenueSpec == InitVenue /\ [][NextVenue]_vars

\* ------------------------------------------- the chat with every call succeeding
\* The chat session once loadMatch has set the match, with the store and
\* the completion call always succeeding.  Every pending await and timer
\* eventually completes; the user is free to stop sending.
InitChatLoaded ==
    /\ users \in CompleteProfiles
    /\ user_venues \in SharedVenue
    /\ matches = <<MatchRow(1, 2, "none")>>
    /\ profile = [s \in Sessions |-> users[s]]
    /\ mounted = [s \in Sessions |-> FALSE]
    /\ elapsed = [s \in Sessions |-> 0]
    /\ waitTicks = [s \in Sessions |-> WaitMinTicks]
    /\ matching = [s \in Sessions |-> FALSE]
    /\ matchFound = [s \in Sessions |-> NoId]
    /\ matchingRef = [s \in Sessions |-> FALSE]
    /\ matchFoundRef = [s \in Sessions |-> FALSE]
    /\ rendered = [s \in Sessions |-> [mf |-> NoId, m |-> FALSE]]
    /\ effectPending = [s \in Sessions |-> FALSE]
    /\ poll = [s \in Sessions |-> IdlePoll]
    /\ attempts = [s \in Sessions |-> [a \in AttemptSlots |-> IdleAttempt]]
    /\ navTimer = [s \in Sessions |-> NoId]
    /\ forceRuns = [s \in Sessions |-> 0]
    /\ activeUsers = [t \in Tappers |-> {}]
    /\ tap = [t \in Tappers |-> IdleTap]
    /\ venueSel = VenueClosed
    /\ messages = <<>>
    /\ userId \in {1, 2}
    /\ match = matches[1]
    /\ matchPc = "idle"
    /\ sending = FALSE
    /\ generatingAI = FALSE
    /\ aiReplyRef = FALSE
    /\ sendPc = IdleSend
    /\ replyTimers = <<>>
    /\ gens = [g \in GenSlots |-> IdleGen]
    /\ lastGen = "none"

NextChatLive ==
    \/ SendMessage
    \/ SendInsert(TRUE)
    \/ SendLoaded
    \/ \E i \in 1..MaxHuman : ReplyCheck(i, TRUE)
    \/ \E g \in GenSlots : GenCompletion(g, TRUE)
    \/ \E g \in GenSlots : GenInsert(g, TRUE)
    \/ \E g \in GenSlots : GenLoaded(g)

FairChat ==
    /\ WF_vars(SendInsert(TRUE))
    /\ WF_vars(SendLoaded)
    /\ WF_vars(\E i \in 1..MaxHuman : ReplyCheck(i, TRUE))
    /\ WF_vars(\E g \in GenSlots : GenCompletion(g, TRUE))
    /\ WF_vars(\E g \in GenSlots : GenInsert(g, TRUE))
    /\ WF_vars(\E g \in GenSlots : GenLoaded(g))

ChatLiveSpec == InitChatLoaded /\ [][NextChatLive]_vars /\ FairChat

\* ------------------------------------------------ the reply to a long chat
\* the messages of the match when the chat is opened: any senders, up to
\* MaxHistory messages
Histories ==
    UNION {[1..n -> {Message(1, 0), Message(2, 0)}] : n \in 0..MaxHistory}

\* The chat session with its match loaded, a history of messages and the
\* reply check of a sendMessage pending; every call succeeds.
InitContext ==
    /\ users = <<Profile("male", "female"), Profile("female", "male"), Profile("female", "all")>>
    /\ user_venues = <<Row(1, 1, 1, 1), Row(2, 1, 1, 2), Row(3, 1, 3, 1)>>
    /\ matches = <<MatchRow(1, 2, "none")>>
    /\ profile = [s \in Sessions |-> users[s]]
    /\ mounted = [s \in Sessions |-> FALSE]
    /\ elapsed = [s \in Sessions |-> 0]
    /\ waitTicks = [s \in Sessions |-> WaitMinTicks]
    /\ matching = [s \in Sessions |-> FALSE]
    /\ matchFound = [s \in Sessions |-> NoId]
    /\ matchingRef = [s \in Sessions |-> FALSE]
    /\ matchFoundRef = [s \in Sessions |-> FALSE]
    /\ rendered = [s \in Sessions |-> [mf |-> NoId, m |-> FALSE]]
    /\ effectPending = [s \in Sessions |-> FALSE]
    /\ poll = [s \in Sessions |-> IdlePoll]
    /\ attempts = [s \in Sessions |-> [a \in AttemptSlots |-> IdleAttempt]]
    /\ navTimer = [s \in Sessions |-> NoId]
    /\ forceRuns = [s \in Sessions |-> 0]
    /\ activeUsers = [t \in Tappers |-> {}]
    /\ tap = [t \in Tappers |-> IdleTap]
    /\ venueSel = VenueClosed
    /\ messages \in Histories
    /\ userId \in {1, 2}
    /\ match = matches[1]
    /\ matchPc = "idle"
    /\ sending = FALSE
    /\ generatingAI = FALSE
    /\ aiReplyRef = FALSE
    /\ sendPc = IdleSend
    /\ replyTimers = <<matches[1]>>
    /\ gens = [g \in GenSlots |-> IdleGen]
    /\ lastGen = "none"

NextContext ==
    \/ \E i \in 1..MaxHuman : ReplyCheck(i, TRUE)
    \/ \E g \in GenSlots : GenCompletion(g, TRUE)
    \/ \E g \in GenSlots : GenInsert(g, TRUE)
    \/ \E g \in GenSlots : GenLoaded(g)

ContextSpec == InitContext /\ [][NextContext]_vars

\* ================================================================= claims
UnorderedPair(r) == {r.user1_id, r.user2_id}

PairId(u1, u2) ==
    CHOOSE i \in DOMAIN matches :
        matches[i].user1_id = u1 /\ matches[i].user2_id = u2

\* a step in which forceMatchAfterWait passes its guard check in session s
ForceStart(s) ==
    \E a \in AttemptSlots :
        /\ attempts[s][a].pc = "idle"
        /\ attempts'[s][a].pc = "venue"
        /\ attempts'[s][a].kind = "force"

\* a step in which a match attempt of session s ends with its insert
\* rejected because the pair's row is already in the store
InsertConflict(s, a) ==
    /\ attempts[s][a].pc = "insert"
    /\ attempts'[s][a].pc = "idle"
    /\ PairExists(attempts[s][a].user1_id, attempts[s][a].user2_id)

\* C1: whatever the interleaving of auto, forced and manual match attempts,
\* the matches table never holds two rows for the same unordered pair of
\* users.
C1_OneRecordPerPair ==
    \A i, j \in DOMAIN matches :
        UnorderedPair(matches[i]) = UnorderedPair(matches[j]) => i = j

\* C1 witness: the row of the pair {1, 2} exists while another attempt to
\* insert that pair is still in flight.
C1_Witness ==
    /\ PairExists(1, 2)
    /\ \E s \in Sessions, a \in AttemptSlots :
           /\ attempts[s][a].pc = "insert"
           /\ {attempts[s][a].user1_id, attempts[s][a].user2_id} = {1, 2}

\* C2: when a session's insert loses the race for a pair to the session it
\* targeted, it reads the existing row back, so that afterwards both
\* sessions hold that row's id as their match.
C2_LoserReadsBack ==
    [][\A s \in Sessions, a \in AttemptSlots :
          (InsertConflict(s, a) /\ attempts[s][a].target \in Sessions)
          => LET id == PairId(attempts[s][a].user1_id, attempts[s][a].user2_id)
             IN matchFound'[s] = id /\ matchFound'[attempts[s][a].target] = id]_vars

\* C3: every row of matches has user1_id < user2_id, every insert in flight
\* carries the pair in that order, and so the pair written for {x, y} is
\* the same whichever of the two initiates.
C3_CanonicalPair ==
    /\ \A i \in DOMAIN matches : matches[i].user1_id < matches[i].user2_id
    /\ \A s \in Sessions, a \in AttemptSlots :
          attempts[s][a].pc = "insert"
          => /\ attempts[s][a].user1_id < attempts[s][a].user2_id
             /\ {attempts[s][a].user1_id, attempts[s][a].user2_id}
                    = {s, attempts[s][a].target}
    /\ \A s, t \in Sessions, a, b \in AttemptSlots :
          (/\ attempts[s][a].pc = "insert" /\ attempts[s][a].target = t
           /\ attempts[t][b].pc = "insert" /\ attempts[t][b].target = s)
          => /\ attempts[s][a].user1_id = attempts[t][b].user1_id
             /\ attempts[s][a].user2_id = attempts[t][b].user2_id

\* C3 witness: a row written by the manual tap and a row whose initiator
\* was the higher id of the pair (session 2 matched with user 1).
C3_Witness ==
    /\ \E i \in DOMAIN matches : matches[i].icebreaker # "none"
    /\ matchFound[2] # NoId
    /\ matches[matchFound[2]].user1_id = 1
    /\ matches[matchFound[2]].user2_id = 2

\* C4: the session never appends more automated messages than it sent human
\* messages, and no human message is answered by two automated replies.
C4_NoDoubleReply ==
    /\ AutoCount <= HumanCount
    /\ \A i, j \in DOMAIN messages :
          (/\ messages[i].sender_id # userId /\ messages[j].sender_id # userId
           /\ messages[i].re = messages[j].re) => i = j

\* C5: at most one generateAIReply is in progress at any time.
C5_SingleFlight == Cardinality(GensInFlight) <= 1

\* a step in which a generateAIReply of the session reaches its finally
GenEnds == \E g \in GenSlots : gens[g].pc # "idle" /\ gens'[g].pc = "idle"

\* C6: when a generation cycle ends, by success, completion failure or
\* insert failure, aiReplyRef is clear; and whenever no generation is in
\* progress aiReplyRef is clear.
C6_GuardNeverStuck ==
    /\ [][GenEnds => ~aiReplyRef']_vars
    /\ [](GensInFlight = {} => ~aiReplyRef)

\* C6 witness: a cycle has ended on a failed completion call, one on a
\* failed insert is also reachable; the guard is clear and nothing is in
\* flight.
C6_Witness ==
    /\ lastGen = "aiFailed"
    /\ GensInFlight = {}
    /\ ~aiReplyRef
    /\ HumanCount > 0

\* another user with both gender fields set is present at the venue of s
HasForceCandidate(s) ==
    /\ OwnVenueRow(s, TRUE) # NoRow
    /\ Len(ForceRows(VenueRows(OwnVenueRow(s, TRUE).venue_id, s))) > 0

\* C7: a session that stays on the matching view with a present user that
\* has both gender fields set eventually has its match formed.
C7_NobodyWaitsForever ==
    \A s \in Sessions :
        (mounted[s] /\ HasForceCandidate(s)) ~> (matchFound[s] # NoId)

\* C8: forceMatchAfterWait passes its guard only when the elapsed wait has
\* reached the drawn deadline, the deadline lies in [5 s, 8 s), no match has
\* formed in the session and the MatchAttemptGuard is clear.
C8_EscalateOnlyAfterDeadline ==
    [][\A s \in Sessions :
          ForceStart(s)
          => /\ elapsed'[s] >= waitTicks[s]
             /\ waitTicks[s] >= WaitMinTicks
             /\ waitTicks[s] < WaitMinTicks + WaitSpanTicks
             /\ matchFound[s] = NoId
             /\ ~matchingRef[s]]_vars

\* C9: forceMatchAfterWait passes its guard check at most once while the
\* session is on the matching view.
C9_EscalatesOnce == \A s \in Sessions : forceRuns[s] <= 1

\* C10: at no time are two match attempts of one session in flight.
C10_OneAttemptInFlight == \A s \in Sessions : Cardinality(InFlight(s)) <= 1

\* the users present at the venue of s, other than s
PresentWith(s) ==
    {u \in Users \ {s} :
        \E i, j \in DOMAIN user_venues :
            /\ user_venues[i].user_id = s
            /\ user_venues[j].user_id = u
            /\ user_venues[j].venue_id = user_venues[i].venue_id}

\* the matches table holds a row for the unordered pair {x, y}
Paired(x, y) ==
    \E i \in DOMAIN matches : UnorderedPair(matches[i]) = {x, y}

\* the user ids of a list of presence rows
UserIds(rows) == {rows[i].user_id : i \in DOMAIN rows}

\* a step in which loadPoolAndMatch of session s ends its matches read
PollEnds(s) == poll[s].pc = "matches" /\ poll'[s].pc = "idle"

\* a step in which tryAutoMatch of session s passes its guard, in slot a
AutoStart(s, a) ==
    /\ attempts[s][a].pc = "idle"
    /\ attempts'[s][a].pc = "insert"
    /\ attempts'[s][a].kind = "auto"

\* C11: the candidates a poll tick hands to the match attempt are exactly
\* the present users that have gender and seeking_gender set, seek the
\* requester's gender or "all", are of the gender the requester seeks (or
\* the requester seeks "all") and have no matches row with the requester;
\* with no such user, or with the session's guard set, no attempt starts.
C11_EligibilityFilter ==
    [][\A s \in Sessions :
          PollEnds(s)
          => LET me == users[s]
                 kept == {u \in PresentWith(s) :
                            /\ users[u].gender # "null"
                            /\ users[u].seeking_gender # "null"
                            /\ users[u].seeking_gender \in {me.gender, "all"}
                            /\ me.seeking_gender \in {users[u].gender, "all"}
                            /\ ~Paired(s, u)}
             IN IF kept # {} /\ GuardClear(s)
                THEN \E a \in AttemptSlots :
                        /\ AutoStart(s, a)
                        /\ UserIds(attempts'[s][a].availableUsers) = kept
                ELSE attempts' = attempts]_vars

\* C11 witness: an attempt was handed exactly one candidate although
\* another present, unpaired user with both gender fields set was there.
C11_Witness ==
    \E s \in Sessions, a \in AttemptSlots :
        /\ attempts[s][a].kind = "auto"
        /\ Len(attempts[s][a].availableUsers) = 1
        /\ \E u \in PresentWith(s) :
              /\ HasGenderFields(users[u])
              /\ ~Paired(s, u)
              /\ u \notin UserIds(attempts[s][a].availableUsers)

\* C12: in every poll tick, no candidate handed to tryAutoMatch already has
\* a matches row with the requester, so the normal path never attempts an
\* insert for a pair that is paired in the store when the attempt starts.
C12_PairedExcluded ==
    [][\A s \in Sessions, a \in AttemptSlots :
          AutoStart(s, a)
          => \A u \in UserIds(attempts'[s][a].availableUsers) : ~Paired(s, u)]_vars

\* C13: the list tryAutoMatch sorts holds the candidates it was handed,
\* every candidate of unknown distance after every candidate of known
\* distance and the known distances ascending; the candidate chosen is the
\* head of that list, so it has the smallest known distance and has an
\* unknown distance only when no candidate has a known one.
C13_NullsLast ==
    \A s \in Sessions, a \in AttemptSlots :
        attempts[s][a].kind = "auto"
        => LET l == attempts[s][a].usersWithDistance
               known == {i \in DOMAIN l : l[i].distance # NoDistance}
           IN /\ Len(l) = Len(attempts[s][a].availableUsers)
              /\ UserIds(l) = UserIds(attempts[s][a].availableUsers)
              /\ \A i, j \in DOMAIN l :
                    i < j => /\ i \notin known => j \notin known
                             /\ (i \in known /\ j \in known)
                                    => l[i].distance <= l[j].distance
              /\ \E i \in DOMAIN l :
                    /\ l[i].user_id = attempts[s][a].target
                    /\ i \in known => \A j \in known : l[i].distance <= l[j].distance
                    /\ i \notin known => known = {}

\* C13 witness: the candidate handed first has an unknown distance and
\* the one handed second a known one; the sort has put the known one first.
C13_Witness ==
    \E s \in Sessions, a \in AttemptSlots :
        LET l == attempts[s][a].usersWithDistance IN
        /\ attempts[s][a].kind = "auto"
        /\ Len(l) = 2
        /\ l[1].distance # NoDistance
        /\ l[2].distance = NoDistance
        /\ attempts[s][a].availableUsers[1].user_id = l[2].user_id
        /\ attempts[s][a].target = l[1].user_id

\* C14: every row of matches carries an icebreaker, the generated line or
\* the fixed fallback line.
C14_IcebreakerAttached ==
    \A i \in DOMAIN matches : matches[i].icebreaker \in {"generated", "fallback"}

\* the claim's mutual interest of two profiles
Interested(x, y) ==
    /\ users[x].gender # "null" /\ users[x].seeking_gender # "null"
    /\ users[y].gender # "null" /\ users[y].seeking_gender # "null"
    /\ users[x].seeking_gender \in {users[y].gender, "all"}
    /\ users[y].seeking_gender \in {users[x].gender, "all"}

\* x and y are present at one venue, mutually interested, and each is the
\* only eligible user for the other
OnlyEachOther(x, y) ==
    /\ x # y
    /\ y \in PresentWith(x)
    /\ \A u \in PresentWith(x) : Interested(x, u) <=> u = y
    /\ \A u \in PresentWith(y) : Interested(y, u) <=> u = x

\* session s has completed a poll tick, the match attempt it started
\* included (a mounted session starts with its first tick in flight)
PollDone(s) == poll[s].pc = "idle" /\ InFlight(s) = {}

\* C15 as stated: once both sessions have completed a poll tick, the row of
\* the pair exists.
C15_PairAfterOneTick ==
    \A s, t \in Sessions :
        (OnlyEachOther(s, t) /\ PollDone(s) /\ PollDone(t)) => Paired(s, t)

\* C15 amended: once both sessions have completed a poll tick, and for at
\* least one of them the wait deadline has not escalated, the row of the
\* pair exists.
C15_PairAfterOneTickBeforeDeadline ==
    \A s, t \in Sessions :
        (/\ OnlyEachOther(s, t) /\ PollDone(s) /\ PollDone(t)
         /\ (forceRuns[s] = 0 \/ forceRuns[t] = 0)) => Paired(s, t)

\* C15 witness: both sessions have completed their tick before any
\* escalation, the row of the pair exists and one of them holds its id.
C15_Witness ==
    /\ OnlyEachOther(1, 2)
    /\ PollDone(1) /\ PollDone(2)
    /\ forceRuns[1] = 0 /\ forceRuns[2] = 0
    /\ Paired(1, 2)
    /\ \E s \in Sessions : matchFound[s] # NoId /\ UnorderedPair(matches[matchFound[s]]) = {1, 2}

\* a step in which generateAIReply passes its guard, in slot g
GenStart(g) == gens[g].pc = "idle" /\ gens'[g].pc = "ai"

\* C16: a generation starts only when the stored message list is not empty,
\* its most recent message is from the session's user and aiReplyRef is
\* clear; with an automated message last, no generation starts.
C16_ReplyOnlyToHuman ==
    [][\A g \in GenSlots :
          GenStart(g)
          => /\ Len(messages) > 0
             /\ messages[Len(messages)].sender_id = userId
             /\ ~aiReplyRef]_vars

\* C16 witness: after an automated reply was stored the user has sent a
\* further message, and a generation for that message is in flight.
C16_Witness ==
    \E g \in GenSlots :
        /\ gens[g].pc = "ai"
        /\ gens[g].re = Len(messages)
        /\ messages[Len(messages)].sender_id = userId
        /\ AutoCount >= 1

\* a step of the generateAIReply call in slot g, from one await to the next
GenStep(g, from, to) == gens[g].pc = from /\ gens'[g].pc = to

\* C17: a generation cycle whose completion call succeeds issues one insert,
\* which appends one message whose sender is the other member of the match
\* and not the session's user, and appends nothing else; a cycle whose
\* completion call fails leaves the message list as it is, schedules no
\* reply check and starts no generation.
C17_OneAppendPerCycle ==
    [][\A g \in GenSlots :
          /\ GenStep(g, "ai", "insert") => messages' = messages
          /\ GenStep(g, "insert", "load")
                => /\ Len(messages') = Len(messages) + 1
                   /\ SubSeq(messages', 1, Len(messages)) = messages
                   /\ messages'[Len(messages')].sender_id # userId
                   /\ messages'[Len(messages')].sender_id \in UnorderedPair(matches[1])
          /\ GenStep(g, "insert", "idle") => messages' = messages
          /\ GenStep(g, "load", "idle") => messages' = messages
          /\ GenStep(g, "ai", "idle")
                => /\ messages' = messages
                   /\ replyTimers' = replyTimers
                   /\ \A h \in GenSlots : ~GenStart(h)]_vars

\* C17 witness: one cycle has appended its reply and a later cycle has
\* ended on a failed completion call.
C17_Witness ==
    /\ lastGen = "aiFailed"
    /\ HumanCount = 2
    /\ AutoCount = 1
    /\ \E i \in DOMAIN messages :
          /\ messages[i].sender_id # userId
          /\ messages[i].sender_id \in UnorderedPair(matches[1])

\* a step in which the poll timer of session s starts loadPoolAndMatch
PollStart(s) == poll[s].pc = "idle" /\ poll'[s].pc = "venue"

\* a step in which a match attempt of session s gets its row inserted
Creates(s) ==
    \E a \in AttemptSlots :
        /\ attempts[s][a].pc = "insert"
        /\ attempts'[s][a].pc = "idle"
        /\ Len(matches') = Len(matches) + 1

\* C18: once a session has left the matching view it starts no poll tick
\* and no escalation and none of its match attempts inserts a matches row,
\* also when loadPoolAndMatch or an attempt was awaiting the store at the
\* moment of leaving.
C18_NothingAfterLeaving ==
    [][\A s \in Sessions :
          ~mounted[s] => ~PollStart(s) /\ ~ForceStart(s) /\ ~Creates(s)]_vars

\* a step in which loadPoolAndMatch of session s gets no row from the read
\* of its own presence although the row is in the store
PresenceReadFails(s) ==
    /\ poll[s].pc = "venue"
    /\ poll'[s].pc = "idle"
    /\ OwnVenueRow(s, TRUE) # NoRow

\* a step in which the read of the venue's presence list fails
VenueListReadFails(s) == poll[s].pc = "users" /\ poll'[s].pc = "idle"

\* a step in which loadPoolAndMatch goes on after a failed read of the
\* session's matches: it hands over a user the matches table pairs with s
MatchesReadFails(s) ==
    /\ PollEnds(s)
    /\ \E a \in AttemptSlots :
          /\ AutoStart(s, a)
          /\ UserIds(attempts'[s][a].availableUsers) \cap MatchedUserIds(s) # {}

\* C19: a poll tick in which the read of the own presence row or of the
\* venue's presence list fails leaves the session on the matching view,
\* starts no match attempt and changes nothing but the tick's own progress;
\* a failed read of the matches never lets the tick go on to an attempt.
C19_ReadErrorChangesNothing ==
    [][\A s \in Sessions :
          /\ PresenceReadFails(s) \/ VenueListReadFails(s)
                => /\ mounted'[s] = mounted[s]
                   /\ attempts' = attempts
                   /\ matches' = matches
                   /\ matching' = matching
                   /\ matchFound' = matchFound
          /\ ~MatchesReadFails(s)]_vars

\* the forceMatchAfterWait calls of session s that have chosen their target
\* and await the insert
Forcing(s) ==
    {a \in AttemptSlots : attempts[s][a].kind = "force" /\ attempts[s][a].pc = "insert"}

\* C20: the target of a forced match is a user other than the requester
\* with a presence row at the requester's venue and both gender fields set,
\* no row before the target's belongs to such a user, and the pair to
\* insert is the requester and that target; whether either of the two
\* seeks the other's gender plays no part.
C20_ForcesFirstWithFields ==
    \A s \in Sessions : \A a \in Forcing(s) :
        LET rows == VenueRows(attempts[s][a].venue_id, s)
            t == attempts[s][a].target
        IN /\ t # s
           /\ users[t].gender # "null" /\ users[t].seeking_gender # "null"
           /\ {attempts[s][a].user1_id, attempts[s][a].user2_id} = {s, t}
           /\ \E i \in DOMAIN rows :
                 /\ rows[i].user_id = t
                 /\ \A j \in 1..(i - 1) :
                       \/ users[rows[j].user_id].gender = "null"
                       \/ users[rows[j].user_id].seeking_gender = "null"

\* C20 witness: user 1, who seeks a gender user 2 is not of, has been
\* force-matched with user 2, while user 3, whose presence row comes first,
\* lacks its gender fields.
C20_Witness ==
    /\ forceRuns[1] >= 1
    /\ matchFound[1] # NoId
    /\ matches = <<MatchRow(1, 2, "none")>>
    /\ ~MutualInterest(users[1], users[2])
    /\ ~HasGenderFields(users[3])
    /\ user_venues[1].user_id = 3
    /\ user_venues[1].venue_id = OwnVenueRow(1, TRUE).venue_id

\* a step in which a match attempt of session s, normal or forced, chooses
\* its target and goes to its insert
TargetChosen(s) ==
    \E a \in AttemptSlots :
        attempts[s][a].pc # "insert" /\ attempts'[s][a].pc = "insert"

\* C21: a session whose user's row of the users table lacks gender or
\* seeking_gender never has a match attempt, normal or forced, choose a
\* target, and none of its attempts inserts a matches row.
C21_NoAttemptWithoutProfile ==
    [][\A s \in Sessions :
          ~HasGenderFields(users[s]) => ~TargetChosen(s) /\ ~Creates(s)]_vars

\* C22: whenever a match attempt of a session, normal or forced, chooses
\* its target, the matches table as the store holds it in that tick has no
\* row for the session's user and the target: the attempt was decided on a
\* read of the matches that shows the pair as not yet formed.
C22_StoreCheckedBeforeInsert ==
    [][\A s \in Sessions : \A a \in AttemptSlots :
          (attempts[s][a].pc # "insert" /\ attempts'[s][a].pc = "insert")
              => ~Paired(s, attempts'[s][a].target)]_vars

\* the presence rows of user u
PresenceOf(u) == SelectSeq(user_venues, LAMBDA r : r.user_id = u)

\* C23: once the user has asked to join a venue and no handleJoinVenue is
\* in flight, user_venues holds exactly one row of the user, and it is a
\* row of the venue asked for last.
C23_OnePresencePerUser ==
    (venueSel.joins > 0 /\ venueSel.pc = "idle")
        => /\ Len(PresenceOf(Joiner)) = 1
           /\ PresenceOf(Joiner)[1].venue_id = venueSel.venueId

\* a step in which a forceMatchAfterWait call of session s returns
ForceEnds(s) ==
    \E a \in AttemptSlots :
        /\ attempts[s][a].kind = "force"
        /\ attempts[s][a].pc # "idle"
        /\ attempts'[s][a].pc = "idle"

\* C24: for a session with no other present user that has both gender
\* fields, a forceMatchAfterWait call returns with the session still on the
\* matching view, no matches row added and matchFound unset, and between
\* the mount and the first poll tick the escalation runs at most once: the
\* wait-timer callbacks after it do not run it again.
C24_NoCandidateNoStorm ==
    [][\A s \in Sessions :
          ~HasForceCandidate(s)
              => /\ ForceEnds(s) => /\ mounted'[s] = mounted[s]
                                    /\ matches' = matches
                                    /\ matchFound'[s] = NoId
                 /\ ForceStart(s) => forceRuns[s] = 0]_vars

\* the messages after the last message of the session's user
AfterLastHuman ==
    LET own == {i \in DOMAIN messages : messages[i].sender_id = userId}
        last == CHOOSE i \in own : \A j \in own : j <= i
    IN IF own = {} THEN <<>> ELSE SubSeq(messages, last + 1, Len(messages))

\* no sendMessage, reply check or generateAIReply is pending
ChatIdle ==
    /\ sendPc = IdleSend
    /\ replyTimers = <<>>
    /\ GensInFlight = {}
    /\ ~generatingAI
    /\ ~aiReplyRef

\* C25: with the match loaded and every call succeeding, the chat comes to
\* rest with nothing pending and, if the user has sent a message, exactly
\* one message after the user's last one, sent as the other member of the
\* match.
C25_EveryMessageAnswered ==
    <>[](/\ ChatIdle
         /\ HumanCount > 0
               => /\ Len(AfterLastHuman) = 1
                  /\ AfterLastHuman[1].sender_id = OtherUserId(matches[1], userId))

\* the eligible users of the tick of session s that the store does not
\* pair with s
Remaining(s) ==
    {u \in UserIds(poll[s].eligible) : u \notin MatchedUserIds(s)}

\* C26: a poll tick that ends with both refs of its session clear and an
\* eligible user left starts a match attempt, also when the store already
\* holds a row that pairs the session's user with somebody else: a match
\* made for the user by another session does not stop its own session.
C26_OwnSessionGoesOn ==
    [][\A s \in Sessions :
          (PollEnds(s) /\ ~matchFoundRef[s] /\ ~matchingRef[s] /\ Remaining(s) # {})
              => \E a \in AttemptSlots :
                    AutoStart(s, a) /\ attempts'[s][a].target \in Remaining(s)]_vars

\* C26 witness: session 2 has formed the match (1, 2), and session 1, whose
\* matchFound never showed that row, has afterwards formed the match (1, 3):
\* user 1 is in two rows with two partners.
C26_Witness ==
    /\ Paired(1, 2) /\ Paired(1, 3)
    /\ matchFound[2] = PairId(1, 2)
    /\ matchFound[1] = PairId(1, 3)
    /\ PairId(1, 2) < PairId(1, 3)
    /\ \A t \in Tappers : activeUsers[t] = {}

\* the presence row has a latitude and a longitude recorded
Located(r) == r.latitude # NoCoord /\ r.longitude # NoCoord

\* the presence row of user u
RowOf(u) == CHOOSE r \in {user_venues[i] : i \in DOMAIN user_venues} : r.user_id = u

\* C27: the distance tryAutoMatch computes for a candidate is non-null
\* exactly when the requester's row and the candidate's row both have a
\* latitude and a longitude recorded, a recorded 0 included, and it is
\* non-null from requester to candidate exactly when it is from candidate to
\* requester.
C27_DistanceDefinedIffLocated ==
    \A s \in Sessions : \A a \in AttemptSlots :
        (attempts[s][a].kind = "auto" /\ attempts[s][a].pc = "insert")
            => \A i \in DOMAIN attempts[s][a].usersWithDistance :
                  LET c == attempts[s][a].usersWithDistance[i]
                      own == RowOf(s)
                      other == RowOf(c.user_id)
                  IN /\ (c.distance # NoDistance) <=> (Located(own) /\ Located(other))
                     /\ (c.distance # NoDistance)
                          <=> (calculateDistance(other.latitude, other.longitude,
                                                 own.latitude, own.longitude) # NoDistance)

\* C28: the context of a generation is the system instruction followed by
\* the last ContextSize messages of the list as re-read (all of them when
\* there are fewer), in the order of the list, each with role "user" when
\* its sender is the session's user and "assistant" otherwise; no message
\* before those is in the context.
C28_ContextWindow ==
    \A g \in GensInFlight :
        LET ctx == gens[g].context
            hist == SubSeq(messages, 1, gens[g].re)
            n == IF Len(hist) < ContextSize THEN Len(hist) ELSE ContextSize
        IN /\ Len(ctx) = n + 1
           /\ ctx[1].role = "system"
           /\ \A k \in 1..n :
                 LET j == Len(hist) - n + k
                 IN /\ ctx[k + 1].content = j
                    /\ ctx[k + 1].role = IF hist[j].sender_id = userId
                                         THEN "user" ELSE "assistant"

\* C28 witness: a generation whose re-read list had more than ContextSize
\* messages, with messages of both members among the last ContextSize.
C28_Witness ==
    \E g \in GensInFlight :
        /\ gens[g].re > ContextSize
        /\ Len(gens[g].context) = ContextSize + 1
        /\ \E k, l \in 2..(ContextSize + 1) :
              gens[g].context[k].role = "user" /\ gens[g].context[l].role = "assistant"

\* a step in which session s starts a match attempt, normal or forced
AttemptStart(s) == ForceStart(s) \/ \E a \in AttemptSlots : AutoStart(s, a)

\* C29: once a session has set its matchFound, it starts no further match
\* attempt and none of its attempts inserts a further matches row, whatever
\* ticks and store calls were pending when the match was found.
C29_OneRecordPerVisit ==
    [][\A s \in Sessions :
          matchFound[s] # NoId => ~AttemptStart(s) /\ ~Creates(s)]_vars

\* a step in which a tryAutoMatch or forceMatchAfterWait call of session s
\* returns
AttemptEnds(s) ==
    \E a \in AttemptSlots : attempts[s][a].pc # "idle" /\ attempts'[s][a].pc = "idle"

\* C30: when a match attempt of a session returns, by success, store
\* error, missing venue row or lack of a candidate, matchingRef is clear;
\* and whenever the session is on the matching view with no attempt in
\* flight, matchingRef is clear.
C30_AttemptGuardNeverStuck ==
    /\ [][\A s \in Sessions : AttemptEnds(s) => ~matchingRef'[s]]_vars
    /\ [](\A s \in Sessions : (mounted[s] /\ InFlight(s) = {}) => ~matchingRef[s])

====
